---- MODULE Spec2Model ----
(***************************************************************************)
(* State-machine model of the story generation loop of llm-novel-generator *)
(* (StoryManager, SectionManager, PromptManager, ResponseParser and the    *)
(* StoryPlan adjustment logic).  A step of the model is the code that runs *)
(* between two blocking calls of the generation service.                   *)
(*                                                                         *)
(* Text is modelled by the features the parser's searches and regular      *)
(* expressions read: which tags are present, the length of the prose, the  *)
(* first number and the keywords of the percentage text.  Percentages are  *)
(* whole numbers.                                                          *)
(***************************************************************************)
EXTENDS Integers, Sequences, FiniteSets, TLC

\* ------------------------------------------------------------------ bounds
MaxSections == 5        \* largest max_sections handed to generate_full_story
MaxRetries == 2         \* largest max_retries handed to generate_section
MaxFileBlocks == 5      \* blocks story.txt may hold before another run starts
MaxAdjustments == 1     \* plan adjustments kept before direct reviews stop
MaxPlanCalls == 3       \* add_adjustment calls made on a StoryPlan used by itself

\* ------------------------------------------------------- program constants
MinContentLen == 1000       \* _quality_check: len(content) < 1000
ContentFloor == 10          \* parse_section_data: len(content.strip()) < 10
DefaultContentLen == 19     \* len("物語は続きます。次の展開に向けて...")
DefaultPercentage == 25     \* extract_percentage / parse_section_data default
DefaultMaxRetries == 3      \* generate_section(..., max_retries=3)
ReviewInterval == 5         \* section_count % 5 == 0

\* --------------------------------------------------------------- templates
TemplateNames == {"base_settings", "story_plan", "section_generation", "plan_review"}

\* A template is modelled by the set of {placeholders} its text names.
TEMPLATES ==
    [n \in TemplateNames |->
        CASE n = "base_settings" -> {"story_setting", "total_length"}
          [] n = "story_plan" -> {"story_setting", "base_settings"}
          [] n = "section_generation" ->
                {"story_setting", "base_settings", "story_plan",
                 "current_content", "total_length", "current_length"}
          [] n = "plan_review" ->
                {"story_setting", "base_settings", "story_plan",
                 "section_count", "current_content", "length_info"}]

\* Keys of the params dict each accessor assembles.
SectionGenerationParams ==
    {"base_settings", "story_plan", "current_content", "section_number",
     "current_length", "total_length", "plan_adjustments"}

PlanReviewParams ==
    {"base_settings", "story_plan", "section_count", "current_content", "length_info"}

BaseSettingsParams == {"story_setting", "total_length"}

StoryPlanParams == {"story_setting", "base_settings"}

\* Template texts a caller may install with update_template: the built-in
\* text, or a text naming only placeholders the accessor supplies.
ReplacementTemplates ==
    [section_generation |->
        {TEMPLATES["section_generation"],
         {"base_settings", "story_plan", "current_content", "total_length",
          "current_length"}},
     plan_review |->
        {TEMPLATES["plan_review"],
         {"base_settings", "story_plan", "section_count", "current_content",
          "length_info"}}]

\* -------------------------------------------------------------- exceptions
\* An exception is its class and the text str(e) gives; the retries-exhausted
\* ValueError also carries the section number, the retry count and the text
\* of the last attempt's error.
NoError == [type |-> "None", text |-> "None", section |-> 0, retries |-> 0, cause |-> "None"]

Exc(type, text) == [type |-> type, text |-> text, section |-> 0, retries |-> 0, cause |-> "None"]

\* What llm.generate may raise, as the Gemini backend does on an empty response.
ServiceErrors == {Exc("ValueError", "empty response")}

QualityError == Exc("ValueError", "quality")

TemplateFormatError(name, key) == Exc("TemplateFormatError", name)

\* template.format(**params): KeyError on a placeholder missing from params.
_format_template(name, template, params) ==
    IF template \subseteq params
    THEN [ok |-> TRUE, error |-> NoError]
    ELSE [ok |-> FALSE,
          error |-> TemplateFormatError(name, CHOOSE k \in template \ params : TRUE)]

\* ------------------------------------------------------------ response text
\* Lengths of the literal tags the parser searches for.
TagContentOpen == 9     \* len("<content>")
TagContentClose == 10   \* len("</content>")
TagProgress == 21       \* len("<progress>") + len("</progress>")
TagPercentage == 25     \* len("<percentage>") + len("</percentage>")
TagPreview == 29        \* len("<next_preview>") + len("</next_preview>")

Keywords == {"complete", "start", "mid"}

\* The text between <percentage> and </percentage>: whether it holds a
\* decimal number, the first such number, and the keywords it contains.
PctText(has_num, num, kws) == [has_num |-> has_num, num |-> num, kws |-> kws]

EmptyText == PctText(FALSE, 0, {})

NumLen(n) == IF n < 10 THEN 1 ELSE IF n < 100 THEN 2 ELSE 3

PctTextLen(t) == (IF t.has_num THEN NumLen(t.num) ELSE 0) + 2 * Cardinality(t.kws)

\* A response of the generation service to a section prompt.  kind "invalid"
\* is None, the empty string or a non-string.  Otherwise: lead is the white
\* space around the whole text, section says whether <section>..</section>
\* is there, content how the <content> tag appears, body the length of the
\* prose without surrounding white space, pct_tag and pct the percentage
\* element, preview whether <next_preview>..</next_preview> is there.  No
\* response holds <thinking>, <achieved_points> or <remaining_points>.
InvalidResponse ==
    [kind |-> "invalid", lead |-> 0, section |-> FALSE, content |-> "none",
     id |-> "none", body |-> 0, pct_tag |-> FALSE, pct |-> EmptyText, preview |-> FALSE]

\* No response received yet.
NoResponse ==
    [kind |-> "none", lead |-> 0, section |-> FALSE, content |-> "none",
     id |-> "none", body |-> 0, pct_tag |-> FALSE, pct |-> EmptyText, preview |-> FALSE]

TextResponse(lead, section, content, id, body, pct_tag, pct, preview) ==
    [kind |-> "text", lead |-> lead, section |-> section, content |-> content,
     id |-> id, body |-> body, pct_tag |-> pct_tag, pct |-> pct, preview |-> preview]

\* Length of everything between <section> and </section> (or of the whole
\* response when that tag is missing), white space at both ends included.
MarkupLen(r) ==
    (CASE r.content = "closed" -> TagContentOpen + TagContentClose
       [] r.content = "open" -> TagContentOpen
       [] OTHER -> 0)
    + (IF r.pct_tag THEN TagProgress + TagPercentage + PctTextLen(r.pct) ELSE 0)
    + (IF r.preview THEN TagPreview + 1 ELSE 0)

\* A piece of text kept as content: whose prose it is, its length, how much
\* of that length is white space at its ends, and whether it still holds tags.
Content(id, len, pad, raw) == [id |-> id, len |-> len, pad |-> pad, raw |-> raw]

strip(c) == [c EXCEPT !.len = c.len - c.pad, !.pad = 0]

default_content == Content("default", DefaultContentLen, 0, FALSE)

\* extract_tag_content(response_text, "section"), falling back to the whole
\* response: a match is returned stripped, the fallback is not.
SectionText(r) ==
    IF r.section
    THEN Content(r.id, r.body + MarkupLen(r), 0, TRUE)
    ELSE Content(r.id, r.body + MarkupLen(r) + r.lead, r.lead, TRUE)

\* The whole text when <content> is missing; the text up to </content>, else
\* up to the next "<", else to the end, stripped.
extract_content_tag(r) ==
    IF r.content = "none"
    THEN SectionText(r)
    ELSE Content(r.id, r.body, 0, FALSE)

\* extract_percentage taking the first number whatever its value.
extract_percentage_AnyNumber(text) ==
    IF text.has_num
    THEN text.num
    ELSE IF "complete" \in text.kws THEN 100
    ELSE IF "start" \in text.kws THEN 0
    ELSE IF "mid" \in text.kws THEN 50
    ELSE DefaultPercentage

\* extract_percentage looking for the keywords before the number.
extract_percentage_KeywordsFirst(text) ==
    IF "complete" \in text.kws THEN 100
    ELSE IF "start" \in text.kws THEN 0
    ELSE IF "mid" \in text.kws THEN 50
    ELSE IF text.has_num /\ 0 <= text.num /\ text.num <= 100 THEN text.num
    ELSE DefaultPercentage

\* First number if within [0, 100], else the keyword heuristics.
extract_percentage(text) ==
    IF text.has_num /\ 0 <= text.num /\ text.num <= 100
    THEN text.num
    ELSE IF "complete" \in text.kws THEN 100
    ELSE IF "start" \in text.kws THEN 0
    ELSE IF "mid" \in text.kws THEN 50
    ELSE DefaultPercentage

Progress(percentage, achieved_points, remaining_points) ==
    [present |-> TRUE, percentage |-> percentage,
     achieved_points |-> achieved_points, remaining_points |-> remaining_points]

SectionData(content, progress, next_preview, thinking) ==
    [content |-> content, progress |-> progress, next_preview |-> next_preview,
     thinking |-> thinking]

NoSectionData == SectionData(Content("none", 0, 0, FALSE), Progress(0, <<>>, <<>>), "", "")

\* The record the except branch of parse_section_data builds.
DefaultSectionData ==
    SectionData(default_content,
                Progress(DefaultPercentage, <<"fallback_achieved">>, <<"fallback_remaining">>),
                "default_preview", "default_thinking")

\* parse_section_data letting its ValueError for a response that is no text
\* escape: the attempt has no SectionData.
parse_section_data_Raising(r) ==
    IF r.kind = "invalid"
    THEN NoSectionData
    ELSE LET extracted == extract_content_tag(r)
             content0 == IF extracted.len = 0 THEN SectionText(r) ELSE extracted
             content == IF strip(content0).len < ContentFloor
                        THEN default_content ELSE content0
             percentage == extract_percentage(IF r.pct_tag THEN r.pct ELSE EmptyText)
             next_preview == IF r.preview THEN "preview" ELSE "default_preview"
         IN  SectionData(content,
                         Progress(percentage, <<"default_achieved">>, <<"default_remaining">>),
                         next_preview, "default_thinking")

parse_section_data(r) ==
    IF r.kind = "invalid"
    THEN DefaultSectionData
    ELSE LET extracted == extract_content_tag(r)
             content0 == IF extracted.len = 0 THEN SectionText(r) ELSE extracted
             content == IF strip(content0).len < ContentFloor
                        THEN default_content ELSE content0
             percentage == extract_percentage(IF r.pct_tag THEN r.pct ELSE EmptyText)
             next_preview == IF r.preview THEN "preview" ELSE "default_preview"
         IN  SectionData(content,
                         Progress(percentage, <<"default_achieved">>, <<"default_remaining">>),
                         next_preview, "default_thinking")

\* _quality_check with the length threshold one character too low.
_quality_check_OneShort(section_data) ==
    /\ section_data.content.len # 0
    /\ section_data.progress.present
    /\ section_data.next_preview # ""
    /\ ~(section_data.content.len < MinContentLen - 1)
    /\ 0 <= section_data.progress.percentage
    /\ section_data.progress.percentage <= 100

_quality_check(section_data) ==
    IF   \/ section_data.content.len = 0
         \/ ~section_data.progress.present
         \/ section_data.next_preview = ""
    THEN FALSE
    ELSE IF section_data.content.len < MinContentLen
    THEN FALSE
    ELSE IF ~(0 <= section_data.progress.percentage
              /\ section_data.progress.percentage <= 100)
    THEN FALSE
    ELSE TRUE

\* -------------------------------------------------------------- story plan
\* A text of several lines is the sequence of its lines, stripped; "" is a
\* blank line.
IsBlankText(lines) == \A i \in 1..Len(lines) : lines[i] = ""

StorySection(goals) == [goals |-> goals, adjusted_goals |-> <<>>]

\* set_current_goals keeping the earlier overrides.
set_current_goals_Appending(section, new_goals) ==
    [section EXCEPT !.adjusted_goals = IF new_goals # "" THEN Append(@, new_goals) ELSE @]

set_current_goals(section, new_goals) ==
    [section EXCEPT !.adjusted_goals = IF new_goals # "" THEN <<new_goals>> ELSE <<>>]

get_current_goals(section) ==
    IF section.adjusted_goals # <<>>
    THEN section.adjusted_goals[Len(section.adjusted_goals)]
    ELSE section.goals

PlanAdjustment(analysis, adjustments, future_plans) ==
    [analysis |-> analysis, adjustments |-> adjustments, future_plans |-> future_plans]

StoryPlan(major_points, plan_sections) ==
    [set |-> TRUE, major_points |-> major_points, sections |-> plan_sections,
     adjustments |-> <<>>]

\* story_plan=None
NoPlan == [set |-> FALSE, major_points |-> <<>>, sections |-> <<>>, adjustments |-> <<>>]

InSeq(x, seq) == \E i \in 1..Len(seq) : seq[i] = x

\* point.strip() for the lines used here: " p1" is "p1" with white space
\* before it, " " a line of white space only.
StripLine(line) ==
    CASE line = " p1" -> "p1"
      [] line = " " -> ""
      [] OTHER -> line

\* _update_major_points putting a new point in front of the list.
RECURSIVE _update_major_points_InFront(_, _)
_update_major_points_InFront(major_points, adjustments) ==
    IF adjustments = <<>>
    THEN major_points
    ELSE LET point == StripLine(Head(adjustments))
         IN  _update_major_points_InFront(
                 IF point # "" /\ ~InSeq(point, major_points)
                 THEN <<point>> \o major_points ELSE major_points,
                 Tail(adjustments))

\* _update_major_points without the "not in self.major_points" test.
RECURSIVE _update_major_points_NoDedup(_, _)
_update_major_points_NoDedup(major_points, adjustments) ==
    IF adjustments = <<>>
    THEN major_points
    ELSE LET point == StripLine(Head(adjustments))
         IN  _update_major_points_NoDedup(
                 IF point # "" THEN Append(major_points, point) ELSE major_points,
                 Tail(adjustments))

RECURSIVE _update_major_points(_, _)
_update_major_points(major_points, adjustments) ==
    IF adjustments = <<>>
    THEN major_points
    ELSE LET point == StripLine(Head(adjustments))
         IN  _update_major_points(
                 IF point # "" /\ ~InSeq(point, major_points)
                 THEN Append(major_points, point) ELSE major_points,
                 Tail(adjustments))

_apply_adjustment(plan, adjustment) ==
    LET current_section_index == Len(plan.sections) - 1
        goals_set ==
            IF current_section_index >= 0
            THEN [plan EXCEPT !.sections[current_section_index + 1] =
                                  set_current_goals(@, adjustment.future_plans)]
            ELSE plan
    IN  IF ~IsBlankText(adjustment.adjustments)
        THEN [goals_set EXCEPT !.major_points =
                                   _update_major_points(@, adjustment.adjustments)]
        ELSE goals_set

\* add_adjustment recording the adjustment at the head of the history.
add_adjustment_AtHead(plan, adjustment) ==
    _apply_adjustment([plan EXCEPT !.adjustments = <<adjustment>> \o @], adjustment)

add_adjustment(plan, adjustment) ==
    _apply_adjustment([plan EXCEPT !.adjustments = Append(@, adjustment)], adjustment)

\* None is NoAdjustment.
NoAdjustment == PlanAdjustment("None", <<>>, "None")

get_latest_adjustment(plan) ==
    IF plan.adjustments # <<>>
    THEN plan.adjustments[Len(plan.adjustments)]
    ELSE NoAdjustment

\* --------------------------------------------------- plan and review replies
\* A reply to the plan prompt: the <point> and <section> elements it holds.
PlanReply(points, goals) == [points |-> points, goals |-> goals]

parse_story_plan(r) ==
    StoryPlan(r.points, [i \in 1..Len(r.goals) |-> StorySection(r.goals[i])])

\* A reply to the plan-review prompt: the inner text of its three tags, ""
\* or <<>> for a tag that is missing or empty.
ReviewReply(analysis, adjustments, future_plans) ==
    [analysis |-> analysis, adjustments |-> adjustments, future_plans |-> future_plans]

parse_plan_review(r) ==
    [analysis |-> IF r.analysis # "" THEN r.analysis ELSE "no_analysis",
     adjustments |-> IF ~IsBlankText(r.adjustments) THEN r.adjustments
                     ELSE <<"no_adjustment_needed">>,
     future_plans |-> IF r.future_plans # "" THEN r.future_plans ELSE "continue_plan"]

\* -------------------------------------------------------------------- state
VARIABLES
    templates,        \* PromptManager.templates: name -> placeholders of its text
    pc,               \* "idle", or the service call the program is blocked in
    entry,            \* the public method called last (running while pc # "idle")
    outcome,          \* how that call ended: kind "none", "returned" or "raised"
    base_settings,    \* StoryContext.base_settings is not None
    story_plan,       \* StoryContext.story_plan
    sections,         \* StoryContext.sections
    current_length,   \* StoryContext.current_length
    section_manager,  \* a SectionManager bound to this StoryContext exists
    story_file,       \* blocks appended to story.txt after its header
    metadata,         \* content of metadata.json
    snapshots,        \* every write of metadata.json since the last call began
    structured_log,   \* number of records in generation_log.jsonl
    max_sections,     \* argument of generate_full_story
    section_count,    \* loop variable of generate_full_story
    gs,               \* frame of generate_section: arguments, attempt, last_error
    gs_trace,         \* what the current generate_section call did, in order
    gs_entry,         \* the StoryContext as it was when that call began
    response,         \* the text llm.generate returned to the last attempt, if any
    section_data,     \* SectionData the last attempt parsed, if any
    gs_started,       \* generate_section calls made by the current run
    gs_returned,      \* ... of which returned a SectionData
    scripts           \* the scripted services the replies so far could come from

vars == <<templates, pc, entry, outcome, base_settings, story_plan, sections,
          current_length, section_manager, story_file, metadata, snapshots, structured_log,
          max_sections, section_count, gs, gs_trace, gs_entry, response,
          section_data, gs_started, gs_returned, scripts>>

\* The state as one record; each piece of code below maps a state to a state.
Cur ==
    [templates |-> templates, pc |-> pc, entry |-> entry, outcome |-> outcome,
     base_settings |-> base_settings, story_plan |-> story_plan,
     sections |-> sections, current_length |-> current_length,
     section_manager |-> section_manager,
     story_file |-> story_file, metadata |-> metadata, snapshots |-> snapshots,
     structured_log |-> structured_log, max_sections |-> max_sections,
     section_count |-> section_count, gs |-> gs, gs_trace |-> gs_trace,
     gs_entry |-> gs_entry,
     response |-> response, section_data |-> section_data, gs_started |-> gs_started,
     gs_returned |-> gs_returned, scripts |-> scripts]

\* The step to state s; s is evaluated once and bound to t.
Commit(s) ==
    \E t \in {s} :
        /\ templates' = t.templates
        /\ pc' = t.pc
        /\ response' = t.response
        /\ entry' = t.entry
        /\ outcome' = t.outcome
        /\ base_settings' = t.base_settings
        /\ story_plan' = t.story_plan
        /\ sections' = t.sections
        /\ current_length' = t.current_length
        /\ section_manager' = t.section_manager
        /\ story_file' = t.story_file
        /\ metadata' = t.metadata
        /\ snapshots' = t.snapshots
        /\ structured_log' = t.structured_log
        /\ max_sections' = t.max_sections
        /\ section_count' = t.section_count
        /\ gs' = t.gs
        /\ gs_trace' = t.gs_trace
        /\ gs_entry' = t.gs_entry
        /\ section_data' = t.section_data
        /\ gs_started' = t.gs_started
        /\ gs_returned' = t.gs_returned
        /\ scripts' = t.scripts

\* The fields of the StoryContext a generation step reads and writes.
StoryContext(s) ==
    [base_settings |-> s.base_settings, story_plan |-> s.story_plan,
     sections |-> s.sections]

\* StoryContext(base_settings=None, story_plan=None, sections=[])
NoContext == [base_settings |-> FALSE, story_plan |-> NoPlan, sections |-> <<>>]

\* ----------------------------------------------------------------- metadata
\* str(e)
Str(e) == [text |-> e.text, section |-> e.section, retries |-> e.retries, cause |-> e.cause]

NoMessage == [text |-> "", section |-> 0, retries |-> 0, cause |-> ""]

GenerationMetadata(status, current_section, progress, error_message) ==
    [status |-> status, current_section |-> current_section, progress |-> progress,
     error_message |-> error_message]

RECURSIVE SumLen(_)
SumLen(seq) == IF seq = <<>> THEN 0 ELSE Head(seq).content.len + SumLen(Tail(seq))

get_current_length(s) == SumLen(s.sections)

_save_metadata(s, m) ==
    LET metadata_dict ==
            [status |-> m.status, current_section |-> m.current_section,
             progress |-> m.progress, current_length |-> get_current_length(s),
             error_message |-> IF m.error_message.text # "" THEN m.error_message
                               ELSE NoMessage]
    IN  [s EXCEPT !.metadata = metadata_dict, !.snapshots = Append(@, metadata_dict)]

\* _append_story writing the content as it is.
_append_story_Unstripped(s, content) == [s EXCEPT !.story_file = Append(@, content)]

\* content.strip() and a blank line
_append_story(s, content) == [s EXCEPT !.story_file = Append(@, strip(content))]

\* ------------------------------------------------------------ control flow
\* The public call ends: it returns, or e leaves it.
Finish(s, kind, e) == [s EXCEPT !.pc = "idle", !.outcome = [kind |-> kind, error |-> e]]

\* except branch of generate_full_story: "error" snapshot, then re-raise.
RunRaise(s, e) ==
    Finish(_save_metadata(s, GenerationMetadata("error", s.section_count, 0, Str(e))),
           "raised", e)

\* initialize_story asking for the base settings again after a failure.
InitRaise_Retrying(s, e) == [s EXCEPT !.pc = "base_call"]

\* An exception leaves initialize_story; generate_full_story calls
\* initialize_story outside its try block.
InitRaise(s, e) == Finish(s, "raised", e)

\* An exception leaves generate_section.
GsRaise(s, e) ==
    IF s.entry = "generate_full_story" THEN RunRaise(s, e) ELSE Finish(s, "raised", e)

ExhaustedError(section, retries, last_error) ==
    [type |-> "ValueError", text |-> "exhausted", section |-> section,
     retries |-> retries, cause |-> last_error.text]

\* The attempt loop running once more than max_retries.
AttemptLoop_OneMore(s) ==
    IF s.gs.attempt <= s.gs.max_retries
    THEN [s EXCEPT !.pc = "section_call"]
    ELSE GsRaise(s, ExhaustedError(s.gs.section_count, s.gs.max_retries, s.gs.last_error))

\* generate_section keeping the section its last attempt parsed in the
\* context when it gives up.
AttemptLoop_KeepsLast(s) ==
    IF s.gs.attempt < s.gs.max_retries
    THEN [s EXCEPT !.pc = "section_call"]
    ELSE GsRaise([s EXCEPT !.sections = IF s.section_data # NoSectionData
                                        THEN Append(@, s.section_data) ELSE @],
                 ExhaustedError(s.gs.section_count, s.gs.max_retries, s.gs.last_error))

\* Head of "for attempt in range(max_retries)": block in llm.generate, or
\* fall out of the loop and raise.
AttemptLoop(s) ==
    IF s.gs.attempt < s.gs.max_retries
    THEN [s EXCEPT !.pc = "section_call"]
    ELSE GsRaise(s, ExhaustedError(s.gs.section_count, s.gs.max_retries, s.gs.last_error))

get_section_generation_prompt(s) ==
    _format_template("section_generation", s.templates["section_generation"],
                     SectionGenerationParams)

\* A quotient a / b kept as its two terms.
Ratio(num, den) == [num |-> num, den |-> den]

\* The length-progress block of the plan-review prompt.
length_info(s) ==
    [current_length |-> s.current_length,
     sections_completed |-> Len(s.sections),
     average_section_length |->
         IF s.sections # <<>> THEN Ratio(s.current_length, Len(s.sections))
         ELSE Ratio(0, 1)]

get_plan_review_prompt(s) ==
    _format_template("plan_review", s.templates["plan_review"], PlanReviewParams)

\* generate_section building its prompt inside the attempt loop, a template
\* error counting as a failed attempt.
BuildSectionPrompt_InsideLoop(s) ==
    LET prompt == get_section_generation_prompt(s)
    IN  IF prompt.ok
        THEN AttemptLoop([s EXCEPT !.gs_trace = Append(@, "prompt")])
        ELSE AttemptLoop([s EXCEPT !.gs_trace = Append(@, "prompt_failed"),
                                   !.gs.last_error = prompt.error,
                                   !.gs.attempt = @ + 1])

\* generate_section from the prompt on.
BuildSectionPrompt(s) ==
    LET prompt == get_section_generation_prompt(s)
    IN  IF prompt.ok
        THEN AttemptLoop([s EXCEPT !.gs_trace = Append(@, "prompt")])
        ELSE GsRaise([s EXCEPT !.gs_trace = Append(@, "prompt_failed")], prompt.error)

\* _review_plan swallowing its failure, the call going on without a review.
ReviewFailed_Swallowed(s, e) ==
    LET s1 == [s EXCEPT !.gs_trace = Append(Append(@, "review_failed"), "prompt")]
    IN  IF s1.gs.attempt < s1.gs.max_retries
        THEN [s1 EXCEPT !.pc = "section_call"]
        ELSE GsRaise(s1, ExhaustedError(s1.gs.section_count, s1.gs.max_retries,
                                        s1.gs.last_error))

\* _review_plan raises e: its except branch logs and re-raises, and
\* generate_section does not catch.
ReviewFailed(s, e) == GsRaise([s EXCEPT !.gs_trace = Append(@, "review_failed")], e)

\* _review_plan up to its service call.
_review_plan(s) ==
    LET prompt == get_plan_review_prompt(s)
        s1 == [s EXCEPT !.gs_trace = Append(@, "review")]
    IN  IF prompt.ok THEN [s1 EXCEPT !.pc = "review_call"]
        ELSE ReviewFailed(s1, prompt.error)

\* The review condition without "section_count > 0".
NeedsReview_AnyMultiple(section_number) == section_number % ReviewInterval = 0

NeedsReview(section_number) ==
    section_number % ReviewInterval = 0 /\ section_number > 0

generate_section(s, section_number, retries) ==
    LET s1 == [s EXCEPT !.gs = [section_count |-> section_number,
                                max_retries |-> retries, attempt |-> 0,
                                last_error |-> NoError],
                        !.gs_trace = <<>>,
                        !.gs_entry = StoryContext(s),
                        !.response = NoResponse,
                        !.section_data = NoSectionData,
                        !.gs_started = @ + 1]
    IN  IF NeedsReview(section_number) THEN _review_plan(s1) ELSE BuildSectionPrompt(s1)

\* The loop of generate_full_story testing "section_count <= max_sections".
LoopHead_OneMore(s) ==
    IF s.section_count <= s.max_sections
    THEN generate_section([s EXCEPT !.section_count = @ + 1],
                          s.section_count + 1, DefaultMaxRetries)
    ELSE Finish(s, "returned", NoError)

\* "while section_count < max_sections", and the return after the loop.
LoopHead(s) ==
    IF s.section_count < s.max_sections
    THEN generate_section([s EXCEPT !.section_count = @ + 1],
                          s.section_count + 1, DefaultMaxRetries)
    ELSE Finish(s, "returned", NoError)

IOError == Exc("OSError", "write failed")

\* generate_full_story without the "break" after the "completed" snapshot.
AfterSection_NoBreak(s, data, io_ok) ==
    LET s1 == [s EXCEPT !.sections = Append(@, data)]
        s2 == _save_metadata(_append_story(s1, data.content),
                  GenerationMetadata("section_generated", s.section_count,
                                     data.progress.percentage, NoMessage))
    IN  IF ~io_ok THEN RunRaise(s1, IOError)
        ELSE IF data.progress.percentage >= 100
        THEN LoopHead(_save_metadata(s2, GenerationMetadata("completed", s.section_count,
                                                            100, NoMessage)))
        ELSE LoopHead(s2)

\* generate_full_story appending the section again after the narrative write.
AfterSection_AppendTwice(s, data, io_ok) ==
    LET s1 == [s EXCEPT !.sections = Append(@, data)]
        s2 == _save_metadata(_append_story([s1 EXCEPT !.sections = Append(@, data)],
                                           data.content),
                  GenerationMetadata("section_generated", s.section_count,
                                     data.progress.percentage, NoMessage))
    IN  IF ~io_ok THEN RunRaise(s1, IOError)
        ELSE IF data.progress.percentage >= 100
        THEN Finish(_save_metadata(s2, GenerationMetadata("completed", s.section_count,
                                                          100, NoMessage)),
                    "returned", NoError)
        ELSE LoopHead(s2)

\* generate_full_story writing the "section_generated" snapshot before it
\* appends the section to the context.
AfterSection_SnapshotFirst(s, data, io_ok) ==
    LET s0 == _save_metadata(s, GenerationMetadata("section_generated", s.section_count,
                                                   data.progress.percentage, NoMessage))
        s1 == [s EXCEPT !.sections = Append(@, data)]
        s2 == _append_story([s0 EXCEPT !.sections = Append(@, data)], data.content)
    IN  IF ~io_ok THEN RunRaise(s1, IOError)
        ELSE IF data.progress.percentage >= 100
        THEN Finish(_save_metadata(s2, GenerationMetadata("completed", s.section_count,
                                                          100, NoMessage)),
                    "returned", NoError)
        ELSE LoopHead(s2)

\* generate_full_story after generate_section returned section_data.
AfterSection(s, data, io_ok) ==
    LET s1 == [s EXCEPT !.sections = Append(@, data)]
        s2 == _save_metadata(_append_story(s1, data.content),
                  GenerationMetadata("section_generated", s.section_count,
                                     data.progress.percentage, NoMessage))
    IN  IF ~io_ok THEN RunRaise(s1, IOError)
        ELSE IF data.progress.percentage >= 100
        THEN Finish(_save_metadata(s2, GenerationMetadata("completed", s.section_count,
                                                          100, NoMessage)),
                    "returned", NoError)
        ELSE LoopHead(s2)

\* generate_section returns data.
GsReturn(s, data, io_ok) ==
    LET s1 == [s EXCEPT !.gs_returned = @ + 1]
    IN  IF s.entry = "generate_full_story" THEN AfterSection(s1, data, io_ok)
        ELSE Finish(s1, "returned", NoError)

\* The except branch keeping the error of the first failed attempt.
AttemptFailed_FirstError(s, e) ==
    AttemptLoop([s EXCEPT !.gs.last_error = IF @ = NoError THEN e ELSE @,
                          !.gs.attempt = @ + 1])

\* except branch of the attempt loop.
AttemptFailed(s, e) ==
    AttemptLoop([s EXCEPT !.gs.last_error = e, !.gs.attempt = @ + 1])

\* One attempt from the return of llm.generate on.
AttemptReplied(s, r, io_ok) ==
    LET data == parse_section_data(r)
        s1 == [s EXCEPT !.response = r, !.section_data = data]
    IN  IF _quality_check(data) THEN GsReturn(s1, data, io_ok)
        ELSE AttemptFailed(s1, QualityError)

\* _review_plan applying the adjustment without recording it in the
\* structured log.
ReviewReplied_Unlogged(s, r, io_ok) ==
    LET review_result == parse_plan_review(r)
        adjustment == PlanAdjustment(review_result.analysis, review_result.adjustments,
                                     review_result.future_plans)
        s1 == [s EXCEPT !.story_plan = add_adjustment(@, adjustment),
                        !.gs_trace = Append(@, "adjust")]
    IN  IF ~io_ok THEN ReviewFailed(s1, IOError)
        ELSE BuildSectionPrompt(s1)

\* _review_plan from the return of llm.generate on, then the rest of
\* generate_section.
ReviewReplied(s, r, io_ok) ==
    LET review_result == parse_plan_review(r)
        adjustment == PlanAdjustment(review_result.analysis, review_result.adjustments,
                                     review_result.future_plans)
        s1 == [s EXCEPT !.story_plan = add_adjustment(@, adjustment),
                        !.gs_trace = Append(@, "adjust")]
    IN  IF ~io_ok THEN ReviewFailed(s1, IOError)
        ELSE BuildSectionPrompt([s1 EXCEPT !.structured_log = @ + 1])

\* initialize_story up to the base-settings call.
initialize_story(s) ==
    LET s1 == [s EXCEPT !.base_settings = FALSE, !.story_plan = NoPlan,
                        !.sections = <<>>, !.current_length = 0,
                        !.section_manager = FALSE]
        prompt == _format_template("base_settings", s.templates["base_settings"],
                                   BaseSettingsParams)
    IN  IF prompt.ok THEN [s1 EXCEPT !.pc = "base_call"] ELSE InitRaise(s1, prompt.error)

\* ... from the base-settings reply to the plan call.
BaseSettingsReplied(s) ==
    LET s1 == [s EXCEPT !.base_settings = TRUE]
        prompt == _format_template("story_plan", s.templates["story_plan"],
                                   StoryPlanParams)
    IN  IF prompt.ok THEN [s1 EXCEPT !.pc = "plan_call"] ELSE InitRaise(s1, prompt.error)

\* initialize_story ending without its "initialized" snapshot.
StoryPlanReplied_NoSnapshot(s, r) ==
    LET s1 == [s EXCEPT !.story_plan = parse_story_plan(r), !.section_manager = TRUE]
    IN  IF s.entry = "generate_full_story"
        THEN LoopHead([s1 EXCEPT !.section_count = 0])
        ELSE Finish(s1, "returned", NoError)

\* ... from the plan reply on; generate_full_story goes on into its loop.
StoryPlanReplied(s, r) ==
    LET s1 == [s EXCEPT !.story_plan = parse_story_plan(r), !.section_manager = TRUE]
        s2 == _save_metadata(s1, GenerationMetadata("initialized", 0, 0, NoMessage))
    IN  IF s.entry = "generate_full_story"
        THEN LoopHead([s2 EXCEPT !.section_count = 0])
        ELSE Finish(s2, "returned", NoError)

\* Two scripted services: one replies well-formed text to every prompt, the
\* i-th section reply reporting 100*i/N; one replies section text whose
\* content is under 1000 characters.
Scripts == {"well_formed", "short_content"}

\* A public call begins.
Begin(s, method) ==
    [s EXCEPT !.entry = method, !.outcome = [kind |-> "none", error |-> NoError],
              !.snapshots = <<>>, !.gs_started = 0, !.gs_returned = 0,
              !.gs = [section_count |-> 0, max_retries |-> 0, attempt |-> 0,
                      last_error |-> NoError],
              !.gs_trace = <<>>, !.gs_entry = NoContext, !.response = NoResponse,
              !.section_data = NoSectionData, !.scripts = Scripts, !.section_count = 0]

\* ------------------------------------------------- replies of the service
Well(id, body, percentage) ==
    TextResponse(0, TRUE, "closed", id, body, TRUE, PctText(TRUE, percentage, {}), TRUE)

\* The percentage the i-th of N section replies reports, 100*i/N.
ScriptedPct(s) ==
    IF s.entry = "generate_full_story"
    THEN (100 * s.section_count) \div s.max_sections
    ELSE 50

\* The well-formed replies to the current section prompt.
ScriptedReplies(s) == {Well("a", MinContentLen, ScriptedPct(s)),
                       Well("b", MinContentLen + 1, ScriptedPct(s))}

\* Section replies whose content is under 1000 characters.
ShortReplies(s) == {Well("a", MinContentLen - 1, ScriptedPct(s)),
                    Well("b", ContentFloor - 1, 150)}

\* Replies explored for a section prompt: the scripted ones (prose of 1000 or
\* 1001 characters; prose one character too short; prose under the floor with
\* a percentage over 100); one reporting completion; one without <section>
\* and <content> tags whose prose alone is too short; one without any tag;
\* and no text at all.
SectionReplies(s) ==
    ScriptedReplies(s) \cup ShortReplies(s) \cup
    {Well("a", MinContentLen, 100),
     TextResponse(2, FALSE, "none", "b", MinContentLen - 1, TRUE,
                  PctText(FALSE, 0, {"complete", "mid"}), FALSE),
     TextResponse(0, FALSE, "none", "a", MinContentLen - 1, FALSE, EmptyText, FALSE),
     InvalidResponse}

\* The scripts a section reply could come from.
ScriptsOf(s, r) ==
    {x \in Scripts : \/ x = "well_formed" /\ r \in ScriptedReplies(s)
                     \/ x = "short_content" /\ r \in ShortReplies(s)}

PlanReplies == {PlanReply(<<"p1">>, <<"g1", "g2">>), PlanReply(<<>>, <<>>)}

ScriptedPlanReply == PlanReply(<<"p1">>, <<"g1", "g2">>)

ReviewReplies ==
    {ReviewReply("", <<>>, ""),
     ReviewReply("a1", <<"p1", "", "p2">>, "f1"),
     ReviewReply("a2", <<"p2">>, "f2")}

\* Section numbers and retry counts handed to generate_section directly.
DirectSectionNumbers == {0 - ReviewInterval, 0, 1, ReviewInterval, 2 * ReviewInterval}

\* --------------------------------------------------------------------- Init
Init ==
    /\ templates = TEMPLATES
    /\ pc = "idle"
    /\ entry = "none"
    /\ outcome = [kind |-> "none", error |-> NoError]
    /\ base_settings = FALSE
    /\ story_plan = NoPlan
    /\ sections = <<>>
    /\ current_length = 0
    /\ section_manager = FALSE
    /\ story_file = <<>>
    /\ metadata = [status |-> "initialized", current_section |-> 0, progress |-> 0,
                   current_length |-> 0, error_message |-> NoMessage]
    /\ snapshots = <<metadata>>
    /\ structured_log = 0
    /\ max_sections = 0
    /\ section_count = 0
    /\ gs = [section_count |-> 0, max_retries |-> 0, attempt |-> 0, last_error |-> NoError]
    /\ gs_trace = <<>>
    /\ gs_entry = NoContext
    /\ response = NoResponse
    /\ section_data = NoSectionData
    /\ gs_started = 0
    /\ gs_returned = 0
    /\ scripts = Scripts

\* ------------------------------------------------------------------ actions
\* PromptManager.update_template(name, template), before the managers are used
UpdateTemplate ==
    /\ pc = "idle"
    /\ entry = "none"
    /\ \E name \in DOMAIN ReplacementTemplates :
       \E template \in ReplacementTemplates[name] :
          /\ template # templates[name]
          /\ Commit([Cur EXCEPT !.templates[name] = template])

\* StoryManager.generate_full_story(max_sections, total_length)
GenerateFullStory ==
    /\ pc = "idle"
    /\ entry \in {"none", "generate_full_story"}
    /\ \E n \in 0..MaxSections :
          /\ Len(story_file) + n <= MaxFileBlocks
          /\ Commit(initialize_story(
                 [Begin(Cur, "generate_full_story") EXCEPT !.max_sections = n]))

\* StoryManager.initialize_story(total_length), called by itself
InitializeStory ==
    /\ pc = "idle"
    /\ entry = "none"
    /\ Commit(initialize_story(Begin(Cur, "initialize_story")))

\* SectionManager.generate_section(section_count, max_retries), called on the
\* section manager of a freshly initialised story.
GenerateSection ==
    /\ pc = "idle"
    /\ section_manager
    /\ entry \in {"initialize_story", "generate_section"}
    /\ Len(story_plan.adjustments) < MaxAdjustments
    /\ \E n \in DirectSectionNumbers, retries \in 0..MaxRetries :
          Commit(generate_section(Begin(Cur, "generate_section"), n, retries))

\* llm.generate returns or raises in _generate_base_settings
BaseSettingsResponse ==
    /\ pc = "base_call"
    /\ \/ Commit(BaseSettingsReplied(Cur))
       \/ \E e \in ServiceErrors : Commit(InitRaise([Cur EXCEPT !.scripts = {}], e))

\* llm.generate returns or raises in _generate_story_plan
StoryPlanResponse ==
    /\ pc = "plan_call"
    /\ \/ \E r \in PlanReplies :
             Commit(StoryPlanReplied(
                 [Cur EXCEPT !.scripts = IF r = ScriptedPlanReply THEN @ ELSE {}], r))
       \/ \E e \in ServiceErrors : Commit(InitRaise([Cur EXCEPT !.scripts = {}], e))

\* llm.generate returns or raises in _review_plan
PlanReviewResponse ==
    /\ pc = "review_call"
    /\ LET s == [Cur EXCEPT !.gs_trace = Append(@, "review_call"), !.scripts = {}]
       IN  \/ \E r \in ReviewReplies, io_ok \in BOOLEAN : Commit(ReviewReplied(s, r, io_ok))
           \/ \E e \in ServiceErrors : Commit(ReviewFailed(s, e))

\* llm.generate returns one of replies, or raises, in an attempt of
\* generate_section
SectionResponseFrom(replies) ==
    /\ pc = "section_call"
    /\ LET s == [Cur EXCEPT !.gs_trace = Append(@, "call")]
       IN  \/ \E r \in replies, io_ok \in BOOLEAN :
                 Commit(AttemptReplied(
                     [s EXCEPT !.scripts = @ \cap ScriptsOf(Cur, r)], r, io_ok))
           \/ \E e \in ServiceErrors :
                 Commit(AttemptFailed([s EXCEPT !.scripts = {},
                                                !.response = NoResponse,
                                                !.section_data = NoSectionData], e))

SectionResponse == SectionResponseFrom(SectionReplies(Cur))

Next ==
    \/ UpdateTemplate
    \/ GenerateFullStory
    \/ InitializeStory
    \/ GenerateSection
    \/ BaseSettingsResponse
    \/ StoryPlanResponse
    \/ PlanReviewResponse
    \/ SectionResponse

Spec == Init /\ [][Next]_vars

\* ------------------------------------------------ one run, to its end
\* Replies explored for a section prompt when a single run is followed to
\* its end: the scripted one, one that never reports completion, and no text.
LiveSectionReplies(s) ==
    {Well("a", MinContentLen, ScriptedPct(s)), Well("b", MinContentLen, 45),
     InvalidResponse}

FirstGenerateFullStory == entry = "none" /\ GenerateFullStory

LiveSectionResponse == SectionResponseFrom(LiveSectionReplies(Cur))

LiveNext ==
    \/ UpdateTemplate
    \/ FirstGenerateFullStory
    \/ BaseSettingsResponse
    \/ StoryPlanResponse
    \/ PlanReviewResponse
    \/ LiveSectionResponse

\* llm.generate is a blocking call that returns or raises: whichever call the
\* program is blocked in, its response step is eventually taken.
Fairness ==
    /\ WF_vars(BaseSettingsResponse)
    /\ WF_vars(StoryPlanResponse)
    /\ WF_vars(PlanReviewResponse)
    /\ WF_vars(LiveSectionResponse)

LiveSpec == Init /\ [][LiveNext]_vars /\ Fairness

\* ---------------------------------------- a ResponseParser used by itself
\* Texts of a <percentage> element: no number or a first number in or out
\* of [0, 100], with any of the keywords.
PctTexts ==
    {PctText(FALSE, 0, kws) : kws \in SUBSET Keywords} \cup
    {PctText(TRUE, num, kws) : num \in {0, 1, 45, 99, 100, 101, 150},
                               kws \in SUBSET Keywords}

\* Responses handed to parse_section_data: complete ones with each of these
\* texts, one with an unclosed <content>, one without any tag, and no text.
ParserResponses ==
    {TextResponse(0, TRUE, "closed", "a", MinContentLen, TRUE, t, TRUE) : t \in PctTexts}
    \cup {TextResponse(0, FALSE, "open", "b", ContentFloor - 1, FALSE, EmptyText, FALSE),
          TextResponse(1, FALSE, "none", "b", ContentFloor, FALSE, EmptyText, FALSE),
          InvalidResponse}

ParserInit ==
    /\ templates = TEMPLATES
    /\ pc = "idle"
    /\ entry = "none"
    /\ outcome = [kind |-> "none", error |-> NoError]
    /\ base_settings = FALSE
    /\ story_plan = NoPlan
    /\ sections = <<>>
    /\ current_length = 0
    /\ section_manager = FALSE
    /\ story_file = <<>>
    /\ metadata = [status |-> "initialized", current_section |-> 0, progress |-> 0,
                   current_length |-> 0, error_message |-> NoMessage]
    /\ snapshots = <<metadata>>
    /\ structured_log = 0
    /\ max_sections = 0
    /\ section_count = 0
    /\ gs = [section_count |-> 0, max_retries |-> 0, attempt |-> 0, last_error |-> NoError]
    /\ gs_trace = <<>>
    /\ gs_entry = NoContext
    /\ response \in ParserResponses
    /\ section_data = NoSectionData
    /\ gs_started = 0
    /\ gs_returned = 0
    /\ scripts = Scripts

\* ResponseParser.parse_section_data(response_text, thinking)
ParseSectionData ==
    /\ section_data = NoSectionData
    /\ Commit([Cur EXCEPT !.section_data = parse_section_data(response)])

ParserNext == ParseSectionData

ParserSpec == ParserInit /\ [][ParserNext]_vars

\* ------------------------------------------- a StoryPlan used by itself
\* Plans parse_story_plan builds: no point and no section, one or two
\* sections, a point the reply repeats.
DirectPlanReplies ==
    {PlanReply(<<>>, <<>>),
     PlanReply(<<"p1">>, <<"g1", "g2">>),
     PlanReply(<<"p1", "p1">>, <<"g1">>),
     PlanReply(<<"p2", "p3">>, <<"g1", "g2">>)}

\* Arguments of add_adjustment: adjustments text with a repeated and a
\* padded line, a single new line, empty texts, a white-space line.
DirectAdjustments ==
    {PlanAdjustment("a1", <<"p1", " p1", "p2">>, "f1"),
     PlanAdjustment("a2", <<"p3">>, "f2"),
     PlanAdjustment("a3", <<>>, ""),
     PlanAdjustment("a4", <<" ", "p4", "p1">>, "f1")}

PlanInit ==
    /\ templates = TEMPLATES
    /\ pc = "idle"
    /\ entry = "none"
    /\ outcome = [kind |-> "none", error |-> NoError]
    /\ base_settings = FALSE
    /\ \E r \in DirectPlanReplies : story_plan = parse_story_plan(r)
    /\ sections = <<>>
    /\ current_length = 0
    /\ section_manager = FALSE
    /\ story_file = <<>>
    /\ metadata = [status |-> "initialized", current_section |-> 0, progress |-> 0,
                   current_length |-> 0, error_message |-> NoMessage]
    /\ snapshots = <<metadata>>
    /\ structured_log = 0
    /\ max_sections = 0
    /\ section_count = 0
    /\ gs = [section_count |-> 0, max_retries |-> 0, attempt |-> 0, last_error |-> NoError]
    /\ gs_trace = <<>>
    /\ gs_entry = NoContext
    /\ response = NoResponse
    /\ section_data = NoSectionData
    /\ gs_started = 0
    /\ gs_returned = 0
    /\ scripts = Scripts

\* StoryPlan.add_adjustment(adjustment)
AddAdjustment ==
    /\ Len(story_plan.adjustments) < MaxPlanCalls
    /\ \E adjustment \in DirectAdjustments :
          Commit([Cur EXCEPT !.story_plan = add_adjustment(@, adjustment)])

PlanNext == AddAdjustment

PlanSpec == PlanInit /\ [][PlanNext]_vars

\* ------------------------------------------------------------------ claims
RECURSIVE Count(_, _)
Count(event, trace) ==
    IF trace = <<>> THEN 0
    ELSE (IF Head(trace) = event THEN 1 ELSE 0) + Count(event, Tail(trace))

RunEnded == pc = "idle" /\ entry = "generate_full_story" /\ outcome.kind # "none"

\* C1: with a service replying well-formed base settings, a well-formed plan
\* and N well-formed section texts of at least 1000 characters, the i-th
\* reporting 100*i/N, and no write failing, generate_full_story(N, ..)
\* returns after accepting exactly N sections, the persisted progress is 100
\* and the narrative ends with the N contents in generation order.
C1_EndToEnd ==
    (RunEnded /\ "well_formed" \in scripts /\ max_sections >= 1 /\ outcome.error # IOError)
    => /\ outcome.kind = "returned"
       /\ gs_returned = max_sections
       /\ Len(sections) = max_sections
       /\ metadata.progress = 100
       /\ Len(story_file) >= max_sections
       /\ \A i \in 1..max_sections :
             story_file[Len(story_file) - max_sections + i] = sections[i].content

\* C2: a generate_section call never makes more than max_retries attempt
\* calls; while it waits for an attempt every earlier attempt has failed;
\* when every attempt has failed it raises the retries-exhausted error after
\* exactly max_retries calls; and when it returns, the passing attempt was
\* its last call.
C2_RetriesExactlyMaxRetries ==
    LET calls == Count("call", gs_trace)
    IN  /\ calls <= gs.max_retries
        /\ pc = "section_call" => calls = gs.attempt
        /\ (pc = "idle" /\ InSeq("prompt", gs_trace) /\ calls = gs.attempt)
           => /\ outcome.kind = "raised"
              /\ outcome.error.text = "exhausted"
              /\ calls = gs.max_retries
        /\ (outcome.kind = "raised" /\ outcome.error.text = "exhausted")
           => calls = gs.max_retries /\ outcome.error.retries = gs.max_retries
        /\ (pc = "idle" /\ entry = "generate_section" /\ outcome.kind = "returned")
           => calls = gs.attempt + 1 /\ calls <= gs.max_retries

C2_Witness ==
    /\ pc = "idle"
    /\ entry = "generate_section"
    /\ outcome.error.text = "exhausted"
    /\ gs.max_retries = MaxRetries
    /\ Count("call", gs_trace) = MaxRetries

\* C3: with a service whose section replies always hold content under 1000
\* characters, generate_section raises after exactly max_retries attempts
\* and the last persisted snapshot of the run has status "error".
C3_ShortContentRaises ==
    (RunEnded /\ "short_content" \in scripts /\ max_sections >= 1)
    => /\ outcome.kind = "raised"
       /\ Count("call", gs_trace) = DefaultMaxRetries
       /\ metadata.status = "error"

\* C4: whenever generate_full_story ends by raising, whatever step failed,
\* the last persisted snapshot has status "error" and carries the text of
\* the exception that is raised to the caller.
C4_ErrorSnapshotOnRaise ==
    (RunEnded /\ outcome.kind = "raised")
    => /\ metadata.status = "error"
       /\ metadata.error_message = Str(outcome.error)

\* C5: once a section has been accepted with a percentage of at least 100
\* (its "section_generated" snapshot is written), the run has stopped: the
\* next and last snapshot is "completed" with progress 100, the call has
\* returned and generate_section was not called again.
C5_StopsAtCompletion ==
    \A i \in 1..Len(snapshots) :
        (snapshots[i].status = "section_generated" /\ snapshots[i].progress >= 100)
        => /\ Len(snapshots) = i + 1
           /\ snapshots[i + 1].status = "completed"
           /\ snapshots[i + 1].progress = 100
           /\ metadata = snapshots[i + 1]
           /\ pc = "idle"
           /\ outcome.kind = "returned"
           /\ gs_started = snapshots[i].current_section
           /\ Len(sections) = snapshots[i].current_section

C5_Witness ==
    /\ RunEnded
    /\ metadata.status = "completed"
    /\ Len(sections) >= 2
    /\ Len(sections) < max_sections

\* C6: a generate_section call runs the plan review exactly once when its
\* section number is a positive multiple of 5 and never otherwise; the review
\* is the first thing the call does, before the section prompt and any
\* attempt, and retries do not repeat it.
C6_ReviewEveryFifthSection ==
    gs_started > 0
    => LET n == gs.section_count
           due == n > 0 /\ \E k \in 1..n : n = 5 * k
       IN  /\ Count("review", gs_trace) = (IF due THEN 1 ELSE 0)
           /\ Count("review_call", gs_trace) <= 1
           /\ Count("adjust", gs_trace) <= 1
           /\ due => gs_trace[1] = "review"
           /\ \A i \in 2..Len(gs_trace) : gs_trace[i] # "review"

C6_Witness ==
    /\ gs.section_count = 2 * ReviewInterval
    /\ Count("review", gs_trace) = 1
    /\ Count("adjust", gs_trace) = 1
    /\ Count("call", gs_trace) >= 2

\* C7: when the plan review of a generate_section call fails, the review is
\* not tried again, the failure leaves generate_section as it is (it is not
\* turned into the retries-exhausted error) and the call makes no section
\* prompt and no attempt call.
C7_ReviewFailureIsFatal ==
    InSeq("review_failed", gs_trace)
    => /\ gs_trace[Len(gs_trace)] = "review_failed"
       /\ Count("review", gs_trace) = 1
       /\ Count("review_call", gs_trace) <= 1
       /\ Count("prompt", gs_trace) = 0
       /\ Count("prompt_failed", gs_trace) = 0
       /\ Count("call", gs_trace) = 0
       /\ pc = "idle"
       /\ outcome.kind = "raised"
       /\ outcome.error \in ServiceErrors \cup
              {IOError, TemplateFormatError("plan_review", "story_setting")}

C7_Witness ==
    /\ RunEnded
    /\ InSeq("review_call", gs_trace)
    /\ InSeq("review_failed", gs_trace)
    /\ outcome.error \in ServiceErrors
    /\ metadata.status = "error"

\* The quality gate as the specification words it.
PassesGate(d) ==
    /\ d.content.len > 0
    /\ d.progress.present
    /\ d.next_preview # ""
    /\ d.content.len >= 1000
    /\ 0 <= d.progress.percentage
    /\ d.progress.percentage <= 100

\* C8: the SectionData an attempt parsed is accepted exactly when it passes
\* the whole quality gate, otherwise the attempt fails with the quality
\* error; so content of 999 characters is rejected, content of 1000 is
\* accepted, and every section of the context has at least 1000 characters.
C8_QualityGate ==
    /\ \A i \in 1..Len(sections) : PassesGate(sections[i])
    /\ section_data # NoSectionData
       => /\ PassesGate(section_data) <=> Count("call", gs_trace) = gs.attempt + 1
          /\ ~PassesGate(section_data) => gs.attempt >= 1
    /\ (section_data # NoSectionData /\ section_data.content.len = 999)
       => Count("call", gs_trace) = gs.attempt
    /\ (pc = "idle" /\ entry = "generate_section" /\ outcome.kind = "returned")
       => PassesGate(section_data)

C8_Witness ==
    /\ Len(sections) = 1
    /\ sections[1].content.len = 1000
    /\ section_data.content.len = 999
    /\ gs.last_error = QualityError

\* C9: within a run every step leaves StoryContext.sections unchanged or
\* appends exactly one element to it, and it appends exactly when a
\* generate_section call returned.
C9_SectionsAppendOnly ==
    [][(pc # "idle" /\ entry = "generate_full_story")
       => \/ sections' = sections /\ gs_returned' = gs_returned
          \/ /\ Len(sections') = Len(sections) + 1
             /\ SubSeq(sections', 1, Len(sections)) = sections
             /\ gs_returned' = gs_returned + 1
             /\ Len(sections') = gs_returned']_vars

C9_Witness ==
    /\ entry = "generate_full_story"
    /\ pc = "section_call"
    /\ Len(sections) >= 2
    /\ gs_returned = Len(sections)
    /\ sections[1] # sections[2]

PercentageInRange(p) == 0 <= p /\ p <= 100

\* C10: the Progress parse_section_data produces has a percentage within
\* [0, 100] for every reply, and so has every Progress in the context and
\* every progress value written to the metadata file.
C10_PercentageInRange ==
    /\ PercentageInRange(section_data.progress.percentage)
    /\ \A i \in 1..Len(sections) : PercentageInRange(sections[i].progress.percentage)
    /\ \A i \in 1..Len(snapshots) : PercentageInRange(snapshots[i].progress)
    /\ PercentageInRange(metadata.progress)

\* A reply whose first number is over 100 has been parsed.
C10_Witness ==
    /\ section_data.content = default_content
    /\ section_data.next_preview = "preview"
    /\ section_data.progress.percentage = DefaultPercentage

IsPrefix(a, b) == Len(a) <= Len(b) /\ SubSeq(b, 1, Len(a)) = a

\* C11: every add_adjustment call leaves major_points as it was or longer,
\* the list before the call being a prefix of the list after it.
C11_MajorPointsNeverShrink ==
    [][IsPrefix(story_plan.major_points, story_plan'.major_points)]_vars

C11_Witness ==
    /\ Len(story_plan.adjustments) >= 2
    /\ story_plan.major_points = <<"p2", "p3", "p1", "p4">>

\* C12: an add_adjustment call whose argument is the one of the call before
\* it leaves major_points unchanged, and no call appends a line that
\* major_points already holds or appends a new line twice.
C12_NoDuplicatePoints ==
    [][/\ (story_plan.adjustments # <<>>
           /\ get_latest_adjustment(story_plan') = get_latest_adjustment(story_plan))
          => story_plan'.major_points = story_plan.major_points
       /\ \A i \in 1..Len(story_plan'.major_points) :
             LET point == story_plan'.major_points[i]
             IN  Count(point, story_plan'.major_points)
                 <= (IF InSeq(point, story_plan.major_points)
                     THEN Count(point, story_plan.major_points) ELSE 1)]_vars

\* The adjustment with the repeated and the padded line was added twice in
\* a row to a plan that already held one of its lines.
C12_Witness ==
    /\ Len(story_plan.adjustments) = 2
    /\ story_plan.adjustments[1] = story_plan.adjustments[2]
    /\ story_plan.adjustments[1].adjustments = <<"p1", " p1", "p2">>
    /\ story_plan.major_points = <<"p1", "p2">>

\* The section add_adjustment targets: the last planned one.
TargetSection(plan) == plan.sections[Len(plan.sections)]

\* C13 as stated: after any add_adjustment calls on a plan with a planned
\* section, the targeted section holds at most one override and
\* get_current_goals returns the future-plans text of the latest adjustment.
C13_LatestOverrideOnly ==
    (story_plan.adjustments # <<>> /\ story_plan.sections # <<>>)
    => /\ Len(TargetSection(story_plan).adjusted_goals) <= 1
       /\ get_current_goals(TargetSection(story_plan))
          = get_latest_adjustment(story_plan).future_plans

\* C13 amended: the targeted section holds at most one override, the
\* future-plans text of the latest adjustment when that text is not empty
\* and none when it is empty; get_current_goals then returns that text,
\* respectively the goals the section was planned with.
C13_LatestOverrideOrPlannedGoals ==
    (story_plan.adjustments # <<>> /\ story_plan.sections # <<>>)
    => LET target == TargetSection(story_plan)
           latest_goals == get_latest_adjustment(story_plan).future_plans
       IN  /\ target.adjusted_goals
              = (IF latest_goals # "" THEN <<latest_goals>> ELSE <<>>)
           /\ get_current_goals(target)
              = (IF latest_goals # "" THEN latest_goals ELSE target.goals)

\* A second adjustment has replaced the override of the first.
C13_Witness ==
    /\ Len(story_plan.adjustments) = 2
    /\ story_plan.adjustments[1].future_plans = "f1"
    /\ story_plan.adjustments[2].future_plans = "f2"
    /\ Len(story_plan.sections) = 2
    /\ get_current_goals(TargetSection(story_plan)) = "f2"

\* C15: every add_adjustment call appends exactly its argument at the end of
\* the history, what was there staying in front of it in arrival order, and
\* get_latest_adjustment returns that argument; it returns None exactly
\* while no call was made.
C15_AdjustmentsAppendOnly ==
    /\ [](get_latest_adjustment(story_plan) = NoAdjustment <=> story_plan.adjustments = <<>>)
    /\ [][\E adjustment \in DirectAdjustments :
             /\ story_plan'.adjustments = Append(story_plan.adjustments, adjustment)
             /\ get_latest_adjustment(story_plan') = adjustment]_vars

C15_Witness ==
    /\ Len(story_plan.adjustments) = 3
    /\ story_plan.adjustments[1].analysis = "a2"
    /\ story_plan.adjustments[2].analysis = "a1"
    /\ get_latest_adjustment(story_plan).analysis = "a3"

\* C14: a plan review changes no generated section and no planned section's
\* static goals, and the one planned section whose goal override it writes
\* has an index (from 0) at or beyond the number of sections generated.
C14_ReviewTouchesOnlyFutureGoals ==
    [][(pc = "review_call" /\ Len(story_plan'.adjustments) = Len(story_plan.adjustments) + 1)
       => /\ sections' = sections
          /\ Len(story_plan'.sections) = Len(story_plan.sections)
          /\ \A i \in 1..Len(story_plan.sections) :
                /\ story_plan'.sections[i].goals = story_plan.sections[i].goals
                /\ story_plan'.sections[i].adjusted_goals
                      # story_plan.sections[i].adjusted_goals
                   => i - 1 >= Len(sections)]_vars

\* A record with every field of a SectionData filled.
IsSectionData(d) ==
    /\ d.content.len > 0
    /\ d.progress.present
    /\ PercentageInRange(d.progress.percentage)
    /\ Len(d.progress.achieved_points) >= 1
    /\ Len(d.progress.remaining_points) >= 1
    /\ d.next_preview # ""
    /\ d.thinking # ""

\* C16: every reply of the service, text or not, is parsed to a SectionData
\* (an attempt that got a reply fails only on the quality check, never on
\* the parser); the record built for a reply that could not be parsed is the
\* fully defaulted one, and the quality check rejects it, so it is never
\* among the sections.
C16_ParserNeverRaises ==
    /\ section_data # NoSectionData => IsSectionData(section_data)
    /\ gs.last_error = QualityError
       => section_data # NoSectionData /\ IsSectionData(section_data)
    /\ response # NoResponse => section_data # NoSectionData
    /\ (response.kind = "invalid"
        \/ section_data.progress.achieved_points = <<"fallback_achieved">>)
       => /\ section_data = DefaultSectionData
          /\ section_data.progress.remaining_points = <<"fallback_remaining">>
          /\ section_data.next_preview = "default_preview"
          /\ section_data.thinking = "default_thinking"
          /\ section_data.content = default_content
          /\ section_data.progress.percentage = 25
          /\ section_data.content.len < 1000
          /\ Count("call", gs_trace) = gs.attempt
    /\ \A i \in 1..Len(sections) : sections[i] # DefaultSectionData

\* A response that is no text was parsed and the attempt was rejected.
C16_Witness ==
    /\ response = InvalidResponse
    /\ section_data = DefaultSectionData
    /\ gs.last_error = QualityError
    /\ gs.attempt >= 1

\* C17: the percentage parsed from the text of a <percentage> element is
\* its first number when that lies in [0, 100]; otherwise 100 for a
\* completion keyword, else 0 for a start keyword, else 50 for a midpoint
\* keyword, else 25.  "45%" gives 45, a completion keyword alone 100, a text
\* with neither 25.
C17_ExtractPercentage ==
    (section_data # NoSectionData /\ response.kind = "text" /\ response.pct_tag)
    => LET text == response.pct
           percentage == section_data.progress.percentage
           in_range == text.has_num /\ 0 <= text.num /\ text.num <= 100
       IN  /\ in_range => percentage = text.num
           /\ (~in_range /\ "complete" \in text.kws) => percentage = 100
           /\ (~in_range /\ "complete" \notin text.kws /\ "start" \in text.kws)
              => percentage = 0
           /\ (~in_range /\ text.kws = {"mid"}) => percentage = 50
           /\ (~in_range /\ text.kws = {}) => percentage = 25
           /\ text = PctText(TRUE, 45, {}) => percentage = 45
           /\ text = PctText(FALSE, 0, {"complete"}) => percentage = 100
           /\ text = PctText(FALSE, 0, {}) => percentage = 25

\* A text whose first number is out of range and which holds every keyword
\* was parsed to 100.
C17_Witness ==
    /\ response.pct = PctText(TRUE, 150, {"complete", "start", "mid"})
    /\ section_data # NoSectionData
    /\ section_data.progress.percentage = 100

\* A step inside a generate_full_story run.
InRun == pc # "idle" /\ entry = "generate_full_story"

\* The step appends one block to the narrative file, together with the
\* section a generate_section call returned.
AppendsBlock ==
    /\ Len(story_file') = Len(story_file) + 1
    /\ SubSeq(story_file', 1, Len(story_file)) = story_file
    /\ Len(sections') = Len(sections) + 1
    /\ gs_returned' = gs_returned + 1

\* The step writes no block: no section was accepted, or the write failed.
WritesNoBlock ==
    /\ story_file' = story_file
    /\ sections' = sections \/ outcome'.error = IOError

\* C18 as stated: during a run the narrative file only grows, by one block
\* for each section generate_section returned and by none otherwise, and
\* the block is the content of the section appended to the context.
C18_BlockPerSection ==
    [][InRun => \/ WritesNoBlock
                \/ /\ AppendsBlock
                   /\ story_file'[Len(story_file')] = sections'[Len(sections')].content]_vars

\* C18 amended: ... and the block is that content without the white space
\* at its ends.
C18_StrippedBlockPerSection ==
    [][InRun => \/ WritesNoBlock
                \/ /\ AppendsBlock
                   /\ LET content == sections'[Len(sections')].content
                      IN  /\ story_file'[Len(story_file')].id = content.id
                          /\ story_file'[Len(story_file')].raw = content.raw
                          /\ story_file'[Len(story_file')].len = content.len - content.pad
                          /\ story_file'[Len(story_file')].pad = 0]_vars

\* A run wrote a second block for a section whose content has white space
\* at its ends.
C18_Witness ==
    /\ entry = "generate_full_story"
    /\ Len(sections) = 2
    /\ Len(story_file) >= 2
    /\ sections[2].content.pad > 0
    /\ story_file[Len(story_file)].len = sections[2].content.len - sections[2].content.pad
    /\ story_file[Len(story_file) - 1] = sections[1].content

\* C19: the snapshots a generate_full_story run has written so far are
\* "initialized", then "section_generated" any number of times, then at most
\* one "completed" or "error" as the last one; "completed" comes directly
\* after a "section_generated" snapshot with progress of at least 100, and
\* the metadata file holds a status among the four.
C19_SnapshotSequence ==
    /\ metadata.status \in {"initialized", "section_generated", "completed", "error"}
    /\ entry = "generate_full_story"
       => /\ snapshots # <<>> => /\ snapshots[1].status = "initialized"
                                /\ metadata = snapshots[Len(snapshots)]
          /\ \A i \in 2..Len(snapshots) :
                /\ snapshots[i].status \in {"section_generated", "completed", "error"}
                /\ snapshots[i - 1].status \in {"initialized", "section_generated"}
                /\ snapshots[i].status = "completed"
                   => /\ snapshots[i - 1].status = "section_generated"
                      /\ snapshots[i - 1].progress >= 100

\* A run wrote "initialized", two "section_generated" and then "error".
C19_Witness ==
    /\ RunEnded
    /\ Len(snapshots) = 4
    /\ snapshots[1].status = "initialized"
    /\ snapshots[2].status = "section_generated"
    /\ snapshots[3].status = "section_generated"
    /\ snapshots[4].status = "error"

\* C20: initialize_story first empties the context, then asks the service
\* once for the base settings and, only after that reply, once for the plan;
\* neither call is repeated.  When one of them fails the call raises at
\* once: what was not yet set stays unset, no Section Generator is built and
\* no "initialized" snapshot is written.  generate_section only ever runs on
\* a context whose base settings and plan are set.
C20_InitializeStory ==
    /\ [](/\ pc = "base_call" => ~base_settings /\ ~story_plan.set /\ sections = <<>>
          /\ pc = "plan_call" => base_settings /\ ~story_plan.set /\ sections = <<>>
          /\ pc \in {"base_call", "plan_call"} => ~section_manager /\ snapshots = <<>>
          /\ (pc \in {"review_call", "section_call"} \/ section_manager \/ gs_started > 0)
             => base_settings /\ story_plan.set)
    /\ [][/\ pc' = "base_call" => pc = "idle"
          /\ pc' = "plan_call" => pc = "base_call"
          /\ (pc \in {"base_call", "plan_call"} /\ outcome'.kind = "raised"
              /\ outcome'.error \in ServiceErrors)
             => /\ pc' = "idle"
                /\ base_settings' = base_settings
                /\ ~story_plan'.set
                /\ ~section_manager'
                /\ snapshots' = <<>>
                /\ metadata' = metadata
                /\ gs_started' = 0
          /\ (pc = "plan_call" /\ story_plan'.set)
             => /\ section_manager'
                /\ snapshots'[1].status = "initialized"]_vars

\* The plan call failed after the base settings were set.
C20_Witness ==
    /\ pc = "idle"
    /\ outcome.kind = "raised"
    /\ outcome.error \in ServiceErrors
    /\ base_settings
    /\ ~story_plan.set
    /\ ~section_manager
    /\ snapshots = <<>>

\* How a run that returned its narrative ended.
Completed ==
    /\ outcome.kind = "returned"
    /\ sections # <<>>
    /\ sections[Len(sections)].progress.percentage >= 100

CapReached ==
    /\ outcome.kind = "returned"
    /\ Len(sections) = max_sections
    /\ \A i \in 1..Len(sections) : sections[i].progress.percentage < 100

Aborted == outcome.kind = "raised"

\* C21: every generate_full_story run ends, provided each service call
\* returns or fails; its generate_section calls are numbered 1, 2, ... in
\* order and are at most max_sections; and it ends in exactly one of three
\* ways: completed (the last accepted section reported at least 100), cap
\* reached (max_sections sections accepted, none reporting 100, narrative
\* returned), or aborted by an exception.
C21_RunTerminates ==
    /\ (InRun ~> RunEnded)
    /\ [](entry = "generate_full_story"
          => /\ gs_started <= max_sections
             /\ gs_started = section_count
             /\ gs_started > 0 => gs.section_count = gs_started
             /\ gs_returned = Len(sections)
             /\ gs_returned \in {gs_started - 1, gs_started}
             /\ RunEnded => /\ Completed \/ CapReached \/ Aborted
                            /\ ~(Completed /\ CapReached)
                            /\ ~(Completed /\ Aborted)
                            /\ ~(CapReached /\ Aborted))
    /\ [][(InRun /\ gs_started' # gs_started)
           => /\ gs_started' = gs_started + 1
              /\ gs'.section_count = gs_started + 1]_vars

C21_Witness ==
    /\ RunEnded
    /\ CapReached
    /\ max_sections >= 2
    /\ gs_started = max_sections

\* C22: a template error raised while generate_section builds the section
\* prompt is not retried: the call ends at once with that very error, not
\* with the retries-exhausted error, and has made no attempt call.
C22_TemplateErrorNotRetried ==
    InSeq("prompt_failed", gs_trace)
    => /\ gs_trace[Len(gs_trace)] = "prompt_failed"
       /\ Count("prompt_failed", gs_trace) = 1
       /\ Count("prompt", gs_trace) = 0
       /\ Count("call", gs_trace) = 0
       /\ gs.attempt = 0
       /\ pc = "idle"
       /\ outcome.kind = "raised"
       /\ outcome.error = get_section_generation_prompt(Cur).error
       /\ outcome.error.type = "TemplateFormatError"
       /\ outcome.error.text # "exhausted"

C22_Witness ==
    /\ InSeq("adjust", gs_trace)
    /\ InSeq("prompt_failed", gs_trace)
    /\ gs.max_retries >= 1
    /\ outcome.kind = "raised"

\* C23: when every attempt of a generate_section call has failed, the error
\* raised names the section number and the retry count and carries the text
\* of the error of the last attempt: the quality error when the last attempt
\* got a reply, the service's error when it got none.  In a run it reaches
\* the caller of generate_full_story, and generate_section is not called for
\* a later section.
C23_ExhaustedCarriesLastError ==
    (pc = "idle" /\ outcome.kind = "raised" /\ outcome.error.text = "exhausted")
    => /\ outcome.error.type = "ValueError"
       /\ outcome.error.section = gs.section_count
       /\ outcome.error.retries = gs.max_retries
       /\ gs.max_retries >= 1
          => /\ Count("call", gs_trace) = gs.max_retries
             /\ IF response = NoResponse
                THEN \E e \in ServiceErrors : outcome.error.cause = e.text
                ELSE /\ outcome.error.cause = QualityError.text
                     /\ ~_quality_check(parse_section_data(response))
       /\ entry = "generate_full_story"
          => /\ gs_started = gs.section_count
             /\ Len(sections) = gs.section_count - 1
             /\ gs_returned = gs.section_count - 1

C23_Witness ==
    /\ RunEnded
    /\ outcome.error.text = "exhausted"
    /\ outcome.error.cause = QualityError.text
    /\ outcome.error.section >= 2
    /\ max_sections > outcome.error.section

\* C24: while a plan review waits for its reply, the length-progress block
\* of the prompt it sent reports as current length the sum of the content
\* lengths of the sections generated so far, and as average section length
\* that sum divided by the number of sections.
C24_ReviewLengthInfo ==
    pc = "review_call"
    => LET info == length_info(Cur)
       IN  /\ info.current_length = SumLen(sections)
           /\ sections # <<>>
              => info.average_section_length.num * Len(sections)
                     = SumLen(sections) * info.average_section_length.den

\* C25: every "section_generated" snapshot a run writes agrees with the
\* context as it is when the snapshot is written: its current section is the
\* number of sections in the context, its progress is the percentage of the
\* section just accepted, which the step has appended, and its current
\* length is the sum of the content lengths of all sections, the new one
\* included.
C25_SectionSnapshotConsistent ==
    [][\A i \in 1..Len(snapshots') :
          (InRun /\ i > Len(snapshots) /\ snapshots'[i].status = "section_generated")
          => /\ Len(sections') = Len(sections) + 1
             /\ snapshots'[i].current_section = Len(sections')
             /\ snapshots'[i].progress = sections'[Len(sections')].progress.percentage
             /\ snapshots'[i].current_length = SumLen(sections')
             /\ snapshots'[i].current_length
                    = SumLen(sections) + sections'[Len(sections')].content.len]_vars

C25_Witness ==
    /\ InRun
    /\ metadata.status = "section_generated"
    /\ metadata.current_section = 3
    /\ Len(sections) = 3
    /\ metadata.progress = sections[3].progress.percentage
    /\ metadata.current_length = SumLen(sections)
    /\ \E i, j \in 1..3 : sections[i].content.len # sections[j].content.len

\* C26: with the built-in templates, in a context whose base settings and
\* plan are set, get_section_generation_prompt and get_plan_review_prompt
\* both return a prompt: every placeholder the template text names is among
\* the parameters the accessor assembles.
C26_BuiltInTemplatesFormat ==
    (base_settings /\ story_plan.set)
    => /\ templates["section_generation"] = TEMPLATES["section_generation"]
          => get_section_generation_prompt(Cur).ok
       /\ templates["plan_review"] = TEMPLATES["plan_review"]
          => get_plan_review_prompt(Cur).ok

\* A generate_section call has ended by raising.
GsRaised ==
    /\ pc = "idle"
    /\ outcome.kind = "raised"
    /\ gs_started = gs_returned + 1

\* C27: a generate_section call that raises leaves the StoryContext as it was
\* on entry: sections, base settings and the whole story plan.
C27_RaisingCallLeavesContext == GsRaised => StoryContext(Cur) = gs_entry

\* C27 as it holds: a generate_section call that raises leaves sections and
\* base settings as they were on entry; the story plan is as on entry when
\* the call's plan review had applied no adjustment, and otherwise it is the
\* plan on entry with that one adjustment applied.
C27_RaisingCallKeepsAppliedReview ==
    GsRaised
    => /\ sections = gs_entry.sections
       /\ base_settings = gs_entry.base_settings
       /\ IF InSeq("adjust", gs_trace)
          THEN /\ Len(story_plan.adjustments) = Len(gs_entry.story_plan.adjustments) + 1
               /\ story_plan = add_adjustment(gs_entry.story_plan,
                                              get_latest_adjustment(story_plan))
          ELSE story_plan = gs_entry.story_plan

C27_Witness ==
    /\ GsRaised
    /\ outcome.error.text = "exhausted"
    /\ InSeq("adjust", gs_trace)
    /\ section_data # NoSectionData
    /\ story_plan.major_points # gs_entry.story_plan.major_points

\* C28: a plan review that raises leaves the story plan as it was when the
\* call began, and the structured log holds as many plan_review records as
\* the plan history holds adjustments.
C28_ReviewAllOrNothing ==
    /\ InSeq("review_failed", gs_trace) => story_plan = gs_entry.story_plan
    /\ structured_log = Len(story_plan.adjustments)

\* C28 as it holds, for every step: a review that does not raise appends
\* exactly one adjustment to the plan history and exactly one record to the
\* structured log; a review that raises writes no record, and leaves the
\* plan unchanged unless what failed is the write of the record, the
\* adjustment then staying applied; no other step writes a record, and the
\* plan history otherwise changes only when initialize_story replaces the plan.
C28_ReviewRecordsWithAdjustment ==
    [][LET history == story_plan.adjustments
           grown == Len(story_plan'.adjustments) = Len(history) + 1
           records == structured_log' - structured_log
           raised == InSeq("review_failed", gs_trace')
       IN  /\ records \in {0, 1}
           /\ grown => story_plan' = add_adjustment(story_plan,
                                                    get_latest_adjustment(story_plan'))
           /\ pc = "review_call"
              => IF raised
                 THEN /\ records = 0
                      /\ \/ story_plan' = story_plan
                         \/ grown /\ outcome'.error = IOError
                 ELSE grown /\ records = 1
           /\ pc # "review_call"
              => /\ records = 0
                 /\ story_plan' = story_plan \/ story_plan'.adjustments = <<>>]_vars

C28_Witness ==
    /\ InSeq("adjust", gs_trace)
    /\ InSeq("review_failed", gs_trace)
    /\ outcome.error = IOError
    /\ Len(story_plan.adjustments) = structured_log + 1

\* C29: a plan review whose reply holds no adjustments text leaves
\* major_points as they were, and the text parse_plan_review puts in place
\* of missing adjustments is never among the major points.
C29_EmptyReviewKeepsMajorPoints ==
    /\ ~InSeq(parse_plan_review(ReviewReply("", <<>>, "")).adjustments[1],
              story_plan.major_points)
    /\ (/\ InSeq("adjust", gs_trace)
        /\ get_latest_adjustment(story_plan).adjustments
               = parse_plan_review(ReviewReply("", <<>>, "")).adjustments)
       => story_plan.major_points = gs_entry.story_plan.major_points

\* C30: when generate_full_story has returned, on a first or a later call,
\* the narrative holds after its header one block per section of the
\* context, in order, each the section's content as _append_story writes
\* it, and nothing else.
C30_NarrativeIsCurrentSections ==
    (RunEnded /\ outcome.kind = "returned")
    => /\ Len(story_file) = Len(sections)
       /\ \A i \in 1..Len(sections) : story_file[i] = strip(sections[i].content)

====
